---- MODULE Spec2Model ----
(***************************************************************************)
(* The Manual Controller (class ManualModeSwitcher) of the mode transition *)
(* engine, as a state machine.  Every public method is one action; the     *)
(* asynchronous executeModeSwitch is cut at its await points, so that      *)
(* other calls, the clock and the processing-state probe can move while a  *)
(* switch awaits its side effects.  The Automatic Engine (class            *)
(* ModeSwitcher) follows: its poll tick, the switches it starts and leaves *)
(* awaiting their collaborators, the deadline of each switch, and the two  *)
(* probes it reads.                                                        *)
(***************************************************************************)
EXTENDS Integers, Sequences, FiniteSets, TLC

(* ---------------------------------------------------------------- bounds *)
\* largest configured maxLockDuration (clock ticks); 0 means unlimited
MaxDuration == 1
\* the clock runs from 1 to MaxTime, far enough for the longest lock to expire
MaxTime == MaxDuration + 2
\* request ids a caller may supply (or generateRequestId may return)
MaxIds == 2
\* listeners registered at the same time
MaxListeners == 1
\* switches that may be awaiting their side effects at the same time
MaxInFlight == 1
\* largest value getPendingTaskCount() returns
MaxPendingTasks == 1

(* ----------------------------------------------------------------- types *)
NodeMode == {"active_master", "standby", "idle_worker"}
NoMode == "null"
\* the null of lockTime (a number | null field)
NoTime == 0 - 1
\* no request id (the id of the null pendingConfirmation)
NoId == 0
RequestIds == 1 .. MaxIds
\* a listener is named by what its callback does when invoked: return,
\* throw synchronously, or return a promise that rejects
ListenerKinds == {"returns", "throws", "rejects"}
\* with the listener that returns a promise which resolves later
AsyncListenerKinds == ListenerKinds \cup {"resolves"}
Slots == 1 .. MaxInFlight

\* pendingConfirmation.timestamp is written at line 101 and read only by
\* getPendingConfirmation (its age); no operation depends on it
NoPending == [targetMode |-> NoMode, requestId |-> NoId]

IdleCall ==
  [pc |-> "idle", op |-> "none", newMode |-> NoMode, oldMode |-> NoMode,
   plan |-> << >>, effects |-> << >>, notified |-> << >>, failed |-> FALSE,
   wrote |-> FALSE, pendingCount |-> 0]

VARIABLES
  currentMode,          \* this.currentMode
  lockState,            \* this.lockState
  lockedMode,           \* this.lockedMode
  lockTime,             \* this.lockTime
  config,               \* this.config
  pendingConfirmation,  \* this.pendingConfirmation
  listeners,            \* this.listeners, in insertion order
  processing,           \* what processingState.isProcessing() returns now
  now,                  \* what Date.now() returns now
  calls,                \* the executeModeSwitch activations awaiting something
  last,                 \* what the step that led here did and returned
  enabled,              \* ModeSwitcher.enabled
  monitoringTimer,      \* time until the interval timer fires next; NoTime: null
  sinceInput,           \* what inputTracker.getTimeSinceLastInput() returns now
  sinceStart,           \* a stopwatch since start(); NoTime: it is not running
  switches,             \* the switchMode activations that have not returned
  services              \* what the side-effect collaborators have done so far

vars == <<currentMode, lockState, lockedMode, lockTime, config, pendingConfirmation,
          listeners, processing, now, calls, last, enabled, monitoringTimer,
          sinceInput, sinceStart, switches, services>>

\* the fields of the automatic engine and of its input probe; the manual
\* controller has none of them
engine == <<enabled, monitoringTimer, sinceInput, sinceStart, switches>>

\* the fields only the manual controller has
manual == <<lockState, lockedMode, lockTime, pendingConfirmation, now, calls>>

ctl == <<currentMode, lockState, lockedMode, lockTime, config, pendingConfirmation,
         listeners>>

\* the report of one step: the method ("none": not one the claims observe), how
\* it ended ("pending": its promise is not settled yet), the request id it
\* returned, the id of the pending confirmation it discarded, and, when a
\* switch settles, whether that switch changed the role
Ev(op, result) ==
  [op |-> op, result |-> result, ret |-> NoId, dropped |-> NoId, wrote |-> FALSE]

(* ---------------------------------------------------------- collaborators *)
\* the services behind the collaborators are not observed
Unobserved == [worker |-> "unobserved", available |-> "unobserved"]

\* a node that was never a worker: the worker service is stopped and the
\* coordination service was told nothing
FreshServices == [worker |-> "stopped", available |-> "unknown"]

\* what a collaborator has done when the promise it returned resolves
Effect(sv, collaborator) ==
  IF sv = Unobserved THEN sv
  ELSE CASE collaborator = "startWorkerService" -> [sv EXCEPT !.worker = "running"]
         [] collaborator = "stopWorkerService" -> [sv EXCEPT !.worker = "stopped"]
         [] collaborator = "notifyCoordination:true" -> [sv EXCEPT !.available = "true"]
         [] collaborator = "notifyCoordination:false" -> [sv EXCEPT !.available = "false"]
         [] OTHER -> sv

(* ------------------------------------------------------------------ init *)
Init ==
  /\ currentMode = "active_master"
  /\ lockState = "unlocked"
  /\ lockedMode = NoMode
  /\ lockTime = NoTime
  /\ config \in [requireConfirmation : BOOLEAN, maxLockDuration : 0 .. MaxDuration]
  /\ pendingConfirmation = NoPending
  /\ listeners = << >>
  /\ processing \in BOOLEAN
  /\ now = 1
  /\ calls = [s \in Slots |-> IdleCall]
  /\ services = Unobserved
  /\ last = Ev("new", "ok")
  /\ enabled = FALSE
  /\ monitoringTimer = NoTime
  /\ sinceInput = 0
  /\ sinceStart = NoTime
  /\ switches = << >>

(* --------------------------------------------------------------- helpers *)
Min(S) == CHOOSE x \in S : \A y \in S : x <= y

FreeSlots == {s \in DOMAIN calls : calls[s].pc = "idle"}

\* faulty variants of LockVetoes: the target is compared with the current role
\* instead of the locked one; the lock vetoes every target; an expired lock no
\* longer vetoes; the lock vetoes nothing
LockVetoesNothing(targetMode) == FALSE

LockVetoesByCurrentMode(targetMode) ==
  lockState = "locked" /\ currentMode # targetMode

LockVetoesEveryTarget(targetMode) == lockState = "locked"

LockVetoesUntilExpiry(targetMode) ==
  /\ lockState = "locked"
  /\ lockedMode # targetMode
  /\ ~(config.maxLockDuration > 0 /\ now - lockTime > config.maxLockDuration)

\* requestModeSwitch, line 91: the lock vetoes every target but the locked one
LockVetoes(targetMode) == lockState = "locked" /\ lockedMode # targetMode

\* faulty variant of ProcessingConflict: the wrong role is guarded
ProcessingConflictOnMaster(newMode) == newMode = "active_master" /\ processing

\* executeModeSwitch, line 242: no switch to worker while master jobs run
ProcessingConflict(newMode) == newMode = "idle_worker" /\ processing

\* transitionToWorker, line 292: the second reading of the probe, made in the
\* same synchronous run as the first
StillProcessing(newMode) == newMode = "idle_worker" /\ processing

\* faulty variants of ConfirmMatches and CancelMatches: the id is not compared
ConfirmMatchesAnyPending(requestId) == pendingConfirmation # NoPending

CancelMatchesAnyPending(requestId) == pendingConfirmation # NoPending

\* confirmModeSwitch, line 118 (negated there): a confirmation is pending and
\* it has this id
ConfirmMatches(requestId) ==
  pendingConfirmation # NoPending /\ pendingConfirmation.requestId = requestId

\* cancelModeSwitch, line 134
CancelMatches(requestId) ==
  pendingConfirmation # NoPending /\ pendingConfirmation.requestId = requestId

\* faulty variants of IsLockExpired: a lock held for exactly maxLockDuration
\* counts as expired; maxLockDuration = 0 is not taken as unlimited
IsLockExpiredAtDuration ==
  IF lockState = "unlocked" \/ lockTime = NoTime \/ lockTime = 0
     \/ config.maxLockDuration = 0
  THEN FALSE
  ELSE now - lockTime >= config.maxLockDuration

IsLockExpiredWithoutUnlimited ==
  IF lockState = "unlocked" \/ lockTime = NoTime \/ lockTime = 0
  THEN FALSE
  ELSE now - lockTime > config.maxLockDuration

\* isLockExpired; !this.lockTime is true of null and of 0
IsLockExpired ==
  IF lockState = "unlocked" \/ lockTime = NoTime \/ lockTime = 0
     \/ config.maxLockDuration = 0
  THEN FALSE
  ELSE now - lockTime > config.maxLockDuration

\* the collaborators transitionToMaster / transitionToWorker / transitionToStandby
\* invoke and await, one after the other
TransitionPlan(newMode, oldMode, pendingCount) ==
  CASE newMode = "active_master" ->
         (IF oldMode = "idle_worker" THEN <<"stopWorkerService">> ELSE << >>)
         \o <<"startMasterServices", "notifyCoordination:false">>
    [] newMode = "idle_worker" ->
         (IF pendingCount > 0 THEN <<"transferPendingTasks">> ELSE << >>)
         \o <<"startWorkerService", "notifyCoordination:true">>
    [] OTHER -> << >>

\* notifyListeners: the callbacks are called one after the other inside map();
\* one that throws ends the map, so the later ones are not called
FirstThrow(ls) ==
  IF \E i \in 1 .. Len(ls) : ls[i] = "throws"
  THEN Min({i \in 1 .. Len(ls) : ls[i] = "throws"})
  ELSE 0

Invoked(ls) == IF FirstThrow(ls) = 0 THEN ls ELSE SubSeq(ls, 1, FirstThrow(ls))

\* notifyListeners rejects when map() threw or Promise.all saw a rejection
NotifyFails(ls) == \E i \in 1 .. Len(ls) : ls[i] \in {"throws", "rejects"}

\* the await of notifyListeners outlasts the current run of the event loop when
\* map() went through and a listener returned a promise
NotificationPends(ls) ==
  FirstThrow(ls) = 0 /\ \E i \in 1 .. Len(ls) : ls[i] \in {"rejects", "resolves"}

Remove(ls, l) == SelectSeq(ls, LAMBDA x : x # l)

Members(ls) == {ls[i] : i \in 1 .. Len(ls)}

\* what getPendingTaskCount() may return where the transition reads it (line
\* 297, on the way to idle_worker only)
PendingCounts(newMode) ==
  IF newMode = "idle_worker" THEN 0 .. MaxPendingTasks ELSE {0}

(* ----------------------------------------------------- executeModeSwitch *)
\* executeModeSwitch up to its first await: the checks, then the first
\* collaborator of the transition is invoked
BeginSwitch(op, newMode) ==
  IF ProcessingConflict(newMode)
  THEN /\ last' = Ev(op, "ProcessingConflict")
       /\ UNCHANGED <<currentMode, calls>>
  ELSE IF StillProcessing(newMode)
  THEN /\ last' = Ev(op, "StillProcessing")
       /\ UNCHANGED <<currentMode, calls>>
  ELSE /\ FreeSlots # {}
       /\ \E pendingCount \in PendingCounts(newMode) :
            LET s == Min(FreeSlots)
                plan == TransitionPlan(newMode, currentMode, pendingCount)
                first == IF plan = << >> THEN << >> ELSE <<plan[1]>>
            IN calls' = [calls EXCEPT ![s] =
                   [pc |-> "transition", op |-> op, newMode |-> newMode,
                    oldMode |-> currentMode, plan |-> plan, effects |-> first,
                    notified |-> << >>, failed |-> FALSE, wrote |-> FALSE,
                    pendingCount |-> pendingCount]]
       /\ last' = Ev(op, "pending")
       /\ UNCHANGED currentMode

\* an awaited collaborator completes and the transition invokes the next one
Resume(s) ==
  /\ calls[s].pc = "transition"
  /\ Len(calls[s].effects) < Len(calls[s].plan)
  /\ LET next == calls[s].plan[Len(calls[s].effects) + 1]
     IN /\ calls' = [calls EXCEPT ![s].effects = Append(@, next)]
        /\ last' = Ev("none", "ok")
  /\ services' = Effect(services, calls[s].effects[Len(calls[s].effects)])
  /\ UNCHANGED <<ctl, processing, now>>
  /\ UNCHANGED engine

\* how the promise of requestModeSwitch / confirmModeSwitch settles once
\* notifyListeners is over: resolved, or rejected with the listener's error
Settled(call) ==
  [Ev(call.op, IF call.failed THEN "ListenerError" ELSE "ok")
     EXCEPT !.wrote = call.wrote]

\* faulty variant of Commit: the promises the listeners return are not awaited
CommitWithoutAwait(s) ==
  /\ calls[s].pc = "transition"
  /\ Len(calls[s].effects) = Len(calls[s].plan)
  /\ currentMode' = calls[s].newMode
  /\ calls' = [calls EXCEPT ![s] = IdleCall]
  /\ last' = [Ev(calls[s].op, IF FirstThrow(listeners) = 0 THEN "ok" ELSE "ListenerError")
                EXCEPT !.wrote = (currentMode # calls[s].newMode)]
  /\ services' = IF calls[s].plan = << >>
                  THEN services
                  ELSE Effect(services, calls[s].plan[Len(calls[s].plan)])
  /\ UNCHANGED <<lockState, lockedMode, lockTime, config, pendingConfirmation,
                 listeners, processing, now>>
  /\ UNCHANGED engine

\* the transition is over: lines 258-259, the role is set and the listeners
\* are called.  When no promise of a listener is awaited the call settles in
\* the same run of the event loop; otherwise it waits for Promise.all.
Commit(s) ==
  /\ calls[s].pc = "transition"
  /\ Len(calls[s].effects) = Len(calls[s].plan)
  /\ currentMode' = calls[s].newMode
  /\ LET done == [calls[s] EXCEPT !.pc = "notifying",
                                  !.notified = Invoked(listeners),
                                  !.failed = NotifyFails(listeners),
                                  !.wrote = (currentMode # calls[s].newMode)]
     IN IF NotificationPends(listeners)
        THEN /\ calls' = [calls EXCEPT ![s] = done]
             /\ last' = Ev("none", "ok")
        ELSE /\ calls' = [calls EXCEPT ![s] = IdleCall]
             /\ last' = Settled(done)
  /\ services' = IF calls[s].plan = << >>
                  THEN services
                  ELSE Effect(services, calls[s].plan[Len(calls[s].plan)])
  /\ UNCHANGED <<lockState, lockedMode, lockTime, config, pendingConfirmation,
                 listeners, processing, now>>
  /\ UNCHANGED engine

\* await notifyListeners is over: Promise.all has settled
Settle(s) ==
  /\ calls[s].pc = "notifying"
  /\ last' = Settled(calls[s])
  /\ calls' = [calls EXCEPT ![s] = IdleCall]
  /\ UNCHANGED <<ctl, processing, now>>
  /\ UNCHANGED <<engine, services>>

(* -------------------------------------------------------- public methods *)
\* faulty variant of StoredPending: a request already pending is kept
StoredPendingKeepsFirst(targetMode, requestId) ==
  IF pendingConfirmation # NoPending
  THEN pendingConfirmation
  ELSE [targetMode |-> targetMode, requestId |-> requestId]

\* requestModeSwitch, lines 99-103: the request that becomes the pending one
StoredPending(targetMode, requestId) ==
  [targetMode |-> targetMode, requestId |-> requestId]

RequestModeSwitch(targetMode, requestId) ==
  /\ IF LockVetoes(targetMode)
     THEN /\ last' = Ev("requestModeSwitch", "ModeLocked")
          /\ UNCHANGED <<ctl, processing, now, calls>>
     ELSE IF config.requireConfirmation
     THEN /\ pendingConfirmation' = StoredPending(targetMode, requestId)
          /\ last' = [Ev("requestModeSwitch", "ok")
                        EXCEPT !.ret = requestId,
                               !.dropped = pendingConfirmation.requestId]
          /\ UNCHANGED <<currentMode, lockState, lockedMode, lockTime, config,
                         listeners, processing, now, calls>>
     ELSE /\ BeginSwitch("requestModeSwitch", targetMode)
          /\ UNCHANGED <<lockState, lockedMode, lockTime, config, pendingConfirmation,
                         listeners, processing, now>>
  /\ UNCHANGED <<engine, services>>

\* faulty variant of ConfirmModeSwitch: the pending confirmation is not consumed
ConfirmModeSwitchKeepsPending(requestId) ==
  /\ IF ~ConfirmMatches(requestId)
     THEN /\ last' = Ev("confirmModeSwitch", "InvalidId")
          /\ UNCHANGED <<ctl, processing, now, calls>>
     ELSE /\ BeginSwitch("confirmModeSwitch", pendingConfirmation.targetMode)
          /\ UNCHANGED <<lockState, lockedMode, lockTime, config, pendingConfirmation,
                         listeners, processing, now>>
  /\ UNCHANGED <<engine, services>>

\* faulty variant of ConfirmModeSwitch: the pending confirmation is consumed
\* only when the switch gets under way
ConfirmModeSwitchConsumesOnStart(requestId) ==
  /\ IF ~ConfirmMatches(requestId)
     THEN /\ last' = Ev("confirmModeSwitch", "InvalidId")
          /\ UNCHANGED <<ctl, processing, now, calls>>
     ELSE /\ pendingConfirmation' =
               IF ProcessingConflict(pendingConfirmation.targetMode)
               THEN pendingConfirmation
               ELSE NoPending
          /\ BeginSwitch("confirmModeSwitch", pendingConfirmation.targetMode)
          /\ UNCHANGED <<lockState, lockedMode, lockTime, config, listeners,
                         processing, now>>
  /\ UNCHANGED <<engine, services>>

\* faulty variant of ConfirmModeSwitch: the lock vetoes the confirmed target
ConfirmModeSwitchUnderLock(requestId) ==
  /\ IF ~ConfirmMatches(requestId)
     THEN /\ last' = Ev("confirmModeSwitch", "InvalidId")
          /\ UNCHANGED <<ctl, processing, now, calls>>
     ELSE IF LockVetoes(pendingConfirmation.targetMode)
     THEN /\ last' = Ev("confirmModeSwitch", "ModeLocked")
          /\ UNCHANGED <<ctl, processing, now, calls>>
     ELSE /\ pendingConfirmation' = NoPending
          /\ BeginSwitch("confirmModeSwitch", pendingConfirmation.targetMode)
          /\ UNCHANGED <<lockState, lockedMode, lockTime, config, listeners,
                         processing, now>>
  /\ UNCHANGED <<engine, services>>

ConfirmModeSwitch(requestId) ==
  /\ IF ~ConfirmMatches(requestId)
     THEN /\ last' = Ev("confirmModeSwitch", "InvalidId")
          /\ UNCHANGED <<ctl, processing, now, calls>>
     ELSE /\ pendingConfirmation' = NoPending
          /\ BeginSwitch("confirmModeSwitch", pendingConfirmation.targetMode)
          /\ UNCHANGED <<lockState, lockedMode, lockTime, config, listeners,
                         processing, now>>
  /\ UNCHANGED <<engine, services>>

CancelModeSwitch(requestId) ==
  /\ pendingConfirmation' =
       IF CancelMatches(requestId) THEN NoPending ELSE pendingConfirmation
  /\ last' = [Ev("cancelModeSwitch", "ok")
                EXCEPT !.dropped = IF CancelMatches(requestId) THEN requestId ELSE NoId]
  /\ UNCHANGED <<currentMode, lockState, lockedMode, lockTime, config, listeners,
                 processing, now, calls>>
  /\ UNCHANGED <<engine, services>>

\* mode is NoMode when the argument is left out
LockMode(mode) ==
  /\ lockedMode' = IF mode = NoMode THEN currentMode ELSE mode
  /\ lockState' = "locked"
  /\ lockTime' = now
  /\ last' = Ev("lockMode", "ok")
  /\ UNCHANGED <<currentMode, config, pendingConfirmation, listeners, processing,
                 now, calls>>
  /\ UNCHANGED <<engine, services>>

\* faulty variant of ClearLock: lockedMode is not reset
ClearLockKeepsMode ==
  /\ lockState' = "unlocked"
  /\ lockTime' = NoTime
  /\ UNCHANGED lockedMode

\* unlockMode, lines 160-162
ClearLock ==
  /\ lockState' = "unlocked"
  /\ lockedMode' = NoMode
  /\ lockTime' = NoTime

UnlockMode ==
  /\ ClearLock
  /\ last' = Ev("unlockMode", "ok")
  /\ UNCHANGED <<currentMode, config, pendingConfirmation, listeners, processing,
                 now, calls>>
  /\ UNCHANGED <<engine, services>>

EnforceMaxLockDuration ==
  /\ IF IsLockExpired
     THEN ClearLock
     ELSE UNCHANGED <<lockState, lockedMode, lockTime>>
  /\ last' = Ev("enforceMaxLockDuration", "ok")
  /\ UNCHANGED <<currentMode, config, pendingConfirmation, listeners, processing,
                 now, calls>>
  /\ UNCHANGED <<engine, services>>

OnModeChange(l) ==
  /\ l \in Members(listeners) \/ Len(listeners) < MaxListeners
  /\ listeners' = IF l \in Members(listeners) THEN listeners ELSE Append(listeners, l)
  /\ last' = Ev("none", "ok")
  /\ UNCHANGED <<currentMode, lockState, lockedMode, lockTime, config,
                 pendingConfirmation, processing, now, calls>>
  /\ UNCHANGED <<engine, services>>

OffModeChange(l) ==
  /\ listeners' = Remove(listeners, l)
  /\ last' = Ev("none", "ok")
  /\ UNCHANGED <<currentMode, lockState, lockedMode, lockTime, config,
                 pendingConfirmation, processing, now, calls>>
  /\ UNCHANGED <<engine, services>>

(* ----------------------------------------------------------- environment *)
\* time passes
Tick ==
  /\ now < MaxTime
  /\ now' = now + 1
  /\ last' = Ev("none", "ok")
  /\ UNCHANGED <<ctl, processing, calls>>
  /\ UNCHANGED <<engine, services>>

\* the owner of the processing state starts or finishes a master job
SetProcessing(b) ==
  /\ b # processing
  /\ processing' = b
  /\ last' = Ev("none", "ok")
  /\ UNCHANGED <<ctl, now, calls>>
  /\ UNCHANGED <<engine, services>>

Next ==
  \/ \E t \in NodeMode, id \in RequestIds : RequestModeSwitch(t, id)
  \/ \E id \in RequestIds : ConfirmModeSwitch(id)
  \/ \E id \in RequestIds : CancelModeSwitch(id)
  \/ \E m \in NodeMode \cup {NoMode} : LockMode(m)
  \/ UnlockMode
  \/ EnforceMaxLockDuration
  \/ \E l \in ListenerKinds : OnModeChange(l)
  \/ \E l \in ListenerKinds : OffModeChange(l)
  \/ \E s \in Slots : Resume(s)
  \/ \E s \in Slots : Commit(s)
  \/ \E s \in Slots : Settle(s)
  \/ Tick
  \/ \E b \in BOOLEAN : SetProcessing(b)

Spec == Init /\ [][Next]_vars

(***************************************************************************)
(* The Automatic Engine (class ModeSwitcher) with its input probe.  Time   *)
(* is counted in milliseconds, as a countdown in every pending timer: the  *)
(* interval timer of the polling loop, the timer of the collaborator a     *)
(* transition awaits, and the deadline timer of a switch.  Time advances   *)
(* to the next instant at which a timer is due (Elapse), or the event loop *)
(* is held up until every pending timer is overdue (Stall); the timers due *)
(* at one instant fire in any order.                                       *)
(***************************************************************************)
\* what every side-effect collaborator takes (startWorkerService,
\* stopWorkerService, transferPendingTasks, notifyCoordinationService)
CollaboratorDelay == 100
\* the deadline of a switch idle_worker -> active_master, and of any other
WorkerToMasterTimeout == 2000
OtherTimeout == 5000
\* the switches that may be in flight at the same time
MaxSwitches == 7

\* the configurations the engine is constructed with
ModeSwitchConfig ==
  {[activeThreshold |-> 100, standbyThreshold |-> 200, idleThreshold |-> 200,
    pollInterval |-> 300, switchTimeout |-> 1000]}

\* the configuration of the timed scenario of the engine's tests
TestConfig ==
  [activeThreshold |-> 100, standbyThreshold |-> 150, idleThreshold |-> 150,
   pollInterval |-> 50, switchTimeout |-> 2000]

Max(S) == CHOOSE x \in S : \A y \in S : x >= y

\* a longer time since the last input reads as this one in determineMode
MaxSinceInput == Max({config.activeThreshold, config.standbyThreshold})

\* the stopwatch stops here
MaxSinceStart == 7 * TestConfig.pollInterval

\* the report of one step of the engine: the notifications dispatched in it,
\* and whether a promise nobody awaits was rejected
AutoEv(op, result) ==
  [op |-> op, result |-> result, notices |-> << >>, uncaught |-> FALSE]

AutoInit ==
  /\ currentMode = "active_master"
  /\ config \in ModeSwitchConfig
  /\ listeners = << >>
  /\ processing \in BOOLEAN
  /\ enabled = FALSE
  /\ monitoringTimer = NoTime
  /\ sinceInput = 0
  /\ sinceStart = NoTime
  /\ switches = << >>
  /\ last = AutoEv("new", "ok")
  /\ lockState = "unlocked"
  /\ lockedMode = NoMode
  /\ lockTime = NoTime
  /\ pendingConfirmation = NoPending
  /\ now = 1
  /\ calls = [s \in Slots |-> IdleCall]
  /\ services = Unobserved

\* faulty variants of DetermineMode: the processing state is not consulted;
\* the standby threshold is consulted before the processing state; the user's
\* activity is not consulted
DetermineModeWithoutProcessing(timeSinceInput, isProcessing, activeThreshold, standbyThreshold) ==
  IF timeSinceInput < activeThreshold THEN "active_master"
  ELSE IF timeSinceInput < standbyThreshold THEN "standby"
  ELSE "idle_worker"

DetermineModeStandbyFirst(timeSinceInput, isProcessing, activeThreshold, standbyThreshold) ==
  IF timeSinceInput < standbyThreshold /\ timeSinceInput >= activeThreshold
     THEN "standby"
  ELSE IF timeSinceInput < activeThreshold \/ isProcessing THEN "active_master"
  ELSE "idle_worker"

DetermineModeWithoutActivity(timeSinceInput, isProcessing, activeThreshold, standbyThreshold) ==
  IF isProcessing THEN "active_master"
  ELSE IF timeSinceInput < standbyThreshold THEN "standby"
  ELSE "idle_worker"

\* determineMode, of what the two probes return and the configuration
DetermineMode(timeSinceInput, isProcessing, activeThreshold, standbyThreshold) ==
  IF timeSinceInput < activeThreshold THEN "active_master"
  ELSE IF isProcessing THEN "active_master"
  ELSE IF timeSinceInput < standbyThreshold THEN "standby"
  ELSE "idle_worker"

\* faulty variant of SwitchTimeout: the configured switchTimeout is the deadline
SwitchTimeoutFromConfig(oldMode, newMode) == config.switchTimeout

\* switchMode, lines 206-209
SwitchTimeout(oldMode, newMode) ==
  IF newMode = "active_master" /\ oldMode = "idle_worker"
  THEN WorkerToMasterTimeout
  ELSE OtherTimeout

TimeoutText(oldMode, newMode) ==
  IF SwitchTimeout(oldMode, newMode) = WorkerToMasterTimeout
  THEN "Mode switch timeout after 2000ms"
  ELSE "Mode switch timeout after 5000ms"

\* faulty variant of AutoTransitionPlan: the coordination service is told
\* before the worker service is started
AutoTransitionPlanNotifyFirst(oldMode, newMode, pendingTasks) ==
  CASE newMode = "idle_worker" ->
         <<"notifyCoordination:true", "startWorkerService">>
    [] newMode = "active_master" /\ oldMode = "idle_worker" ->
         (IF pendingTasks > 0 THEN <<"transferPendingTasks">> ELSE << >>)
         \o <<"stopWorkerService", "notifyCoordination:false">>
    [] OTHER -> << >>

\* faulty variant of AutoTransitionPlan: a worker that becomes standby stops
\* its worker service
AutoTransitionPlanStandbyStopsWorker(oldMode, newMode, pendingTasks) ==
  CASE newMode = "idle_worker" ->
         <<"startWorkerService", "notifyCoordination:true">>
    [] newMode = "active_master" /\ oldMode = "idle_worker" ->
         (IF pendingTasks > 0 THEN <<"transferPendingTasks">> ELSE << >>)
         \o <<"stopWorkerService", "notifyCoordination:false">>
    [] newMode = "standby" /\ oldMode = "idle_worker" ->
         <<"stopWorkerService", "notifyCoordination:false">>
    [] OTHER -> << >>

\* faulty variant of AutoTransitionPlan: the pending tasks are transferred
\* whether or not there are any
AutoTransitionPlanAlwaysTransfers(oldMode, newMode, pendingTasks) ==
  CASE newMode = "idle_worker" ->
         <<"startWorkerService", "notifyCoordination:true">>
    [] newMode = "active_master" /\ oldMode = "idle_worker" ->
         <<"transferPendingTasks", "stopWorkerService", "notifyCoordination:false">>
    [] OTHER -> << >>

\* the collaborators executeModeSwitch of the engine invokes and awaits, one
\* after the other (transitionToWorker, transitionToMaster)
AutoTransitionPlan(oldMode, newMode, pendingTasks) ==
  CASE newMode = "idle_worker" ->
         <<"startWorkerService", "notifyCoordination:true">>
    [] newMode = "active_master" /\ oldMode = "idle_worker" ->
         (IF pendingTasks > 0 THEN <<"transferPendingTasks">> ELSE << >>)
         \o <<"stopWorkerService", "notifyCoordination:false">>
    [] OTHER -> << >>

\* what getPendingTaskCount() may return where transitionToMaster reads it
AutoPendingCounts(oldMode, newMode) ==
  IF newMode = "active_master" /\ oldMode = "idle_worker"
  THEN 0 .. MaxPendingTasks
  ELSE {0}

SuccessNotice(sw) ==
  [oldMode |-> sw.oldMode, newMode |-> sw.newMode, kind |-> "switched",
   cause |-> "none"]

FailureNotice(sw, cause) ==
  [oldMode |-> sw.oldMode, newMode |-> sw.oldMode, kind |-> "failed",
   cause |-> cause]

Without(seq, i) == SubSeq(seq, 1, i - 1) \o SubSeq(seq, i + 1, Len(seq))

\* the catch block of switchMode, lines 224-228: the listeners are told of the
\* failure.  Nothing catches a failure of that notification: it rejects the
\* promise of checkAndUpdateMode, which the interval callback drops.  A
\* promise that a listener returns has settled when Promise.all is awaited.
ReportFailure(op, sw, cause, sent) ==
  LET notices == Append(sent, FailureNotice(sw, cause))
  IN IF ~NotifyFails(listeners)
     THEN last' = [AutoEv(op, "failed") EXCEPT !.notices = notices]
     ELSE last' = [AutoEv(op, "UnhandledRejection")
                     EXCEPT !.notices = notices, !.uncaught = TRUE]

\* faulty variant of CommitAndNotify: the role is not set
NotifyWithoutCommit(op, sw) ==
  /\ UNCHANGED currentMode
  /\ IF ~NotifyFails(listeners)
     THEN last' = [AutoEv(op, "switched") EXCEPT !.notices = <<SuccessNotice(sw)>>]
     ELSE ReportFailure(op, sw, "ListenerError", <<SuccessNotice(sw)>>)

\* switchMode, lines 222-223, after the race was won: the role is set and the
\* listeners are told; a failure of that notification is caught at line 224
CommitAndNotify(op, sw) ==
  /\ currentMode' = sw.newMode
  /\ IF ~NotifyFails(listeners)
     THEN last' = [AutoEv(op, "switched") EXCEPT !.notices = <<SuccessNotice(sw)>>]
     ELSE ReportFailure(op, sw, "ListenerError", <<SuccessNotice(sw)>>)

\* faulty variant of Start: the enabled flag is not consulted
StartUnguarded ==
  /\ enabled' = TRUE
  /\ monitoringTimer' = config.pollInterval
  /\ last' = AutoEv("start", "ok")
  /\ UNCHANGED <<currentMode, config, listeners, processing, sinceInput, sinceStart,
                 switches, manual, services>>

\* start(); result "ok": inputTracker.startMonitoring() was called and the
\* interval timer was created (lines 111-113), "noop": the early return
Start ==
  /\ IF enabled
     THEN /\ last' = AutoEv("start", "noop")
          /\ UNCHANGED <<enabled, monitoringTimer>>
     ELSE /\ enabled' = TRUE
          /\ monitoringTimer' = config.pollInterval
          /\ last' = AutoEv("start", "ok")
  /\ UNCHANGED <<currentMode, config, listeners, processing, sinceInput, sinceStart,
                 switches, manual, services>>

\* stop(); result "ok": inputTracker.stopMonitoring() was called and the
\* interval timer was cleared (lines 124-126), "noop": the early return
Stop ==
  /\ IF ~enabled
     THEN /\ last' = AutoEv("stop", "noop")
          /\ UNCHANGED <<enabled, monitoringTimer>>
     ELSE /\ enabled' = FALSE
          /\ monitoringTimer' = NoTime
          /\ last' = AutoEv("stop", "ok")
  /\ UNCHANGED <<currentMode, config, listeners, processing, sinceInput, sinceStart,
                 switches, manual, services>>

\* faulty variant of Poll: a tick is skipped while a switch is in flight
PollSerialized ==
  /\ enabled
  /\ monitoringTimer = 0
  /\ monitoringTimer' = config.pollInterval
  /\ LET newMode == DetermineMode(sinceInput, processing, config.activeThreshold,
                                  config.standbyThreshold)
     IN IF switches # << >>
        THEN /\ last' = AutoEv("poll", "skipped")
             /\ UNCHANGED <<currentMode, switches>>
        ELSE IF newMode = currentMode
        THEN /\ last' = AutoEv("poll", "same")
             /\ UNCHANGED <<currentMode, switches>>
        ELSE \E pendingTasks \in AutoPendingCounts(currentMode, newMode) :
               LET plan == AutoTransitionPlan(currentMode, newMode, pendingTasks)
                   sw == [oldMode |-> currentMode, newMode |-> newMode, pc |-> "work",
                          plan |-> plan, done |-> 0, due |-> CollaboratorDelay,
                          deadline |-> SwitchTimeout(currentMode, newMode),
                          pendingTasks |-> pendingTasks]
               IN IF newMode = "idle_worker" /\ processing
                  THEN /\ ReportFailure("poll", sw, "StillProcessing", << >>)
                       /\ UNCHANGED <<currentMode, switches>>
                  ELSE IF plan = << >>
                  THEN /\ CommitAndNotify("poll", sw)
                       /\ UNCHANGED switches
                  ELSE /\ Len(switches) < MaxSwitches
                       /\ switches' = Append(switches, sw)
                       /\ last' = AutoEv("poll", "started")
                       /\ UNCHANGED currentMode
  /\ UNCHANGED <<config, listeners, processing, enabled, sinceInput, sinceStart,
                 manual, services>>

\* the interval timer fires: checkAndUpdateMode, and switchMode up to its
\* first await that a timer ends
Poll ==
  /\ enabled
  /\ monitoringTimer = 0
  /\ monitoringTimer' = config.pollInterval
  /\ LET newMode == DetermineMode(sinceInput, processing, config.activeThreshold,
                                  config.standbyThreshold)
     IN IF newMode = currentMode
        THEN /\ last' = AutoEv("poll", "same")
             /\ UNCHANGED <<currentMode, switches>>
        ELSE \E pendingTasks \in AutoPendingCounts(currentMode, newMode) :
               LET plan == AutoTransitionPlan(currentMode, newMode, pendingTasks)
                   sw == [oldMode |-> currentMode, newMode |-> newMode, pc |-> "work",
                          plan |-> plan, done |-> 0, due |-> CollaboratorDelay,
                          deadline |-> SwitchTimeout(currentMode, newMode),
                          pendingTasks |-> pendingTasks]
               IN IF newMode = "idle_worker" /\ processing
                  THEN /\ ReportFailure("poll", sw, "StillProcessing", << >>)
                       /\ UNCHANGED <<currentMode, switches>>
                  ELSE IF plan = << >>
                  THEN /\ CommitAndNotify("poll", sw)
                       /\ UNCHANGED switches
                  ELSE /\ Len(switches) < MaxSwitches
                       /\ switches' = Append(switches, sw)
                       /\ last' = AutoEv("poll", "started")
                       /\ UNCHANGED currentMode
  /\ UNCHANGED <<config, listeners, processing, enabled, sinceInput, sinceStart,
                 manual, services>>

\* the collaborator a transition awaits completes, and the transition invokes
\* the next one
CollaboratorDone(i) ==
  /\ switches[i].pc \in {"work", "lost"}
  /\ switches[i].due = 0
  /\ switches[i].done + 1 < Len(switches[i].plan)
  /\ switches' = [switches EXCEPT ![i].done = @ + 1, ![i].due = CollaboratorDelay]
  /\ services' = Effect(services, switches[i].plan[switches[i].done + 1])
  /\ last' = AutoEv("none", "ok")
  /\ UNCHANGED <<currentMode, config, listeners, processing, enabled,
                 monitoringTimer, sinceInput, sinceStart, manual>>

\* the last collaborator completes: executeModeSwitch resolves.  It wins the
\* race of line 220 unless the deadline has rejected it before.
WorkDone(i) ==
  /\ switches[i].pc \in {"work", "lost"}
  /\ switches[i].due = 0
  /\ switches[i].done + 1 = Len(switches[i].plan)
  /\ switches' = Without(switches, i)
  /\ IF switches[i].pc = "work"
     THEN CommitAndNotify("workDone", switches[i])
     ELSE /\ last' = AutoEv("none", "ok")
          /\ UNCHANGED currentMode
  /\ services' = Effect(services, switches[i].plan[switches[i].done + 1])
  /\ UNCHANGED <<config, listeners, processing, enabled, monitoringTimer,
                 sinceInput, sinceStart, manual>>

\* faulty variant of DeadlinePassed: the role is set although the race is lost
DeadlinePassedCommits(i) ==
  /\ switches[i].pc = "work"
  /\ switches[i].deadline = 0
  /\ switches' = [switches EXCEPT ![i].pc = "lost", ![i].deadline = NoTime]
  /\ currentMode' = switches[i].newMode
  /\ ReportFailure("timeout", switches[i],
                   TimeoutText(switches[i].oldMode, switches[i].newMode), << >>)
  /\ UNCHANGED <<config, listeners, processing, enabled, monitoringTimer,
                 sinceInput, sinceStart, manual, services>>

\* the deadline timer fires before executeModeSwitch has resolved: the race is
\* lost, line 215; the transition goes on with nobody awaiting it
DeadlinePassed(i) ==
  /\ switches[i].pc = "work"
  /\ switches[i].deadline = 0
  /\ switches' = [switches EXCEPT ![i].pc = "lost", ![i].deadline = NoTime]
  /\ ReportFailure("timeout", switches[i],
                   TimeoutText(switches[i].oldMode, switches[i].newMode), << >>)
  /\ UNCHANGED <<currentMode, config, listeners, processing, enabled,
                 monitoringTimer, sinceInput, sinceStart, manual, services>>

AutoOnModeChange(l) ==
  /\ l \in Members(listeners) \/ Len(listeners) < MaxListeners
  /\ listeners' = IF l \in Members(listeners) THEN listeners ELSE Append(listeners, l)
  /\ last' = AutoEv("none", "ok")
  /\ UNCHANGED <<currentMode, config, processing, engine, manual, services>>

AutoOffModeChange(l) ==
  /\ listeners' = Remove(listeners, l)
  /\ last' = AutoEv("none", "ok")
  /\ UNCHANGED <<currentMode, config, processing, engine, manual, services>>

\* the user touches the machine: MockUserInputTracker.resetLastInput
ResetLastInput ==
  /\ sinceInput' = 0
  /\ last' = AutoEv("resetLastInput", "ok")
  /\ UNCHANGED <<currentMode, config, listeners, processing, enabled,
                 monitoringTimer, sinceStart, switches, manual, services>>

AutoSetProcessing(b) ==
  /\ b # processing
  /\ processing' = b
  /\ last' = AutoEv("none", "ok")
  /\ UNCHANGED <<currentMode, config, listeners, engine, manual, services>>

\* the interval timer and the timers of the collaborators.  A transition
\* awaits at most three collaborators of CollaboratorDelay each, so that no
\* deadline passes while every timer fires when it is due: the deadline of a
\* switch keeps its delay until the event loop is held up.
Timers ==
  ({monitoringTimer} \cup {switches[i].due : i \in 1 .. Len(switches)}) \ {NoTime}

\* the time to the next instant at which a timer is due
Delay == IF Timers = {} THEN config.pollInterval ELSE Min(Timers)

Later(t, d) == IF t = NoTime THEN NoTime ELSE Max({t - d, 0})

Capped(t, d, cap) == IF t = NoTime THEN NoTime ELSE Min({t + d, cap})

\* d milliseconds pass
Pass(d) ==
  /\ monitoringTimer' = Later(monitoringTimer, d)
  /\ sinceInput' = Capped(sinceInput, d, MaxSinceInput)
  /\ sinceStart' = Capped(sinceStart, d, MaxSinceStart)
  /\ last' = AutoEv("none", "ok")
  /\ UNCHANGED <<currentMode, config, listeners, processing, enabled, manual, services>>

\* every timer fired when it was due: time advances to the next timer
Elapse ==
  /\ Delay > 0
  /\ Pass(Delay)
  /\ switches' = [i \in 1 .. Len(switches) |->
                    [switches[i] EXCEPT !.due = Later(@, Delay)]]

\* the event loop, which had run every timer that was due, is held up for
\* longer than the longest deadline: every pending timer is overdue
Stall ==
  /\ Delay > 0
  /\ \E i \in 1 .. Len(switches) : switches[i].pc = "work"
  /\ Pass(OtherTimeout)
  /\ switches' = [i \in 1 .. Len(switches) |->
                    [switches[i] EXCEPT !.due = Later(@, OtherTimeout),
                                        !.deadline = Later(@, OtherTimeout)]]

AutoNext ==
  \/ Start
  \/ Stop
  \/ Poll
  \/ \E i \in 1 .. Len(switches) : CollaboratorDone(i)
  \/ \E i \in 1 .. Len(switches) : WorkDone(i)
  \/ \E i \in 1 .. Len(switches) : DeadlinePassed(i)
  \/ \E l \in ListenerKinds : AutoOnModeChange(l)
  \/ \E l \in ListenerKinds : AutoOffModeChange(l)
  \/ ResetLastInput
  \/ \E b \in BOOLEAN : AutoSetProcessing(b)
  \/ Elapse
  \/ Stall

AutoSpec == AutoInit /\ [][AutoNext]_vars

(***************************************************************************)
(* The timed scenario of the engine's tests: an engine with the test's     *)
(* configuration and an idle master is started, at once or some time after *)
(* its input probe was created, and stays started; every timer fires when  *)
(* it is due, so that every collaborator completes long before a deadline; *)
(* the user may touch the machine.  A stopwatch runs from start().         *)
(***************************************************************************)
ProbeAges == {0, 50, 100, 150}

LiveInit ==
  /\ currentMode = "active_master"
  /\ config = TestConfig
  /\ listeners = << >>
  /\ processing = FALSE
  /\ enabled = TRUE
  /\ monitoringTimer = config.pollInterval
  /\ sinceInput \in ProbeAges
  /\ sinceStart = 0
  /\ switches = << >>
  /\ last = AutoEv("start", "ok")
  /\ lockState = "unlocked"
  /\ lockedMode = NoMode
  /\ lockTime = NoTime
  /\ pendingConfirmation = NoPending
  /\ now = 1
  /\ calls = [s \in Slots |-> IdleCall]
  /\ services = Unobserved

LiveNext ==
  \/ Poll
  \/ \E i \in 1 .. Len(switches) : CollaboratorDone(i)
  \/ \E i \in 1 .. Len(switches) : WorkDone(i)
  \/ ResetLastInput
  \/ Elapse

\* the event loop runs every timer that is due, and time passes
LiveSpec ==
  /\ LiveInit
  /\ [][LiveNext]_vars
  /\ WF_vars(Poll)
  /\ WF_vars(\E i \in 1 .. Len(switches) : CollaboratorDone(i))
  /\ WF_vars(\E i \in 1 .. Len(switches) : WorkDone(i))
  /\ WF_vars(Elapse)

(***************************************************************************)
(* The unattended machine: an engine on which a listener was registered is *)
(* started on an idle master, with the configuration of the tests or the   *)
(* one above (activeThreshold < standbyThreshold in both); nobody touches  *)
(* the machine and no master job runs; every timer fires when it is due.   *)
(***************************************************************************)
UnattendedInit ==
  /\ currentMode = "active_master"
  /\ config \in ModeSwitchConfig \cup {TestConfig}
  /\ listeners = <<"returns">>
  /\ processing = FALSE
  /\ enabled = TRUE
  /\ monitoringTimer = config.pollInterval
  /\ sinceInput \in ProbeAges
  /\ sinceStart = 0
  /\ switches = << >>
  /\ last = AutoEv("start", "ok")
  /\ lockState = "unlocked"
  /\ lockedMode = NoMode
  /\ lockTime = NoTime
  /\ pendingConfirmation = NoPending
  /\ now = 1
  /\ calls = [s \in Slots |-> IdleCall]
  /\ services = Unobserved

UnattendedNext ==
  \/ Poll
  \/ \E i \in 1 .. Len(switches) : CollaboratorDone(i)
  \/ \E i \in 1 .. Len(switches) : WorkDone(i)
  \/ Elapse

UnattendedSpec == UnattendedInit /\ [][UnattendedNext]_vars

(***************************************************************************)
(* The engine with the services behind its collaborators observed: the     *)
(* worker service runs from the completion of start-worker-service to the  *)
(* completion of stop-worker-service, and the coordination service knows   *)
(* the availability it was told last.                                      *)
(***************************************************************************)
ServiceInit ==
  /\ currentMode = "active_master"
  /\ config \in ModeSwitchConfig
  /\ listeners = << >>
  /\ processing \in BOOLEAN
  /\ enabled = FALSE
  /\ monitoringTimer = NoTime
  /\ sinceInput = 0
  /\ sinceStart = NoTime
  /\ switches = << >>
  /\ last = AutoEv("new", "ok")
  /\ lockState = "unlocked"
  /\ lockedMode = NoMode
  /\ lockTime = NoTime
  /\ pendingConfirmation = NoPending
  /\ now = 1
  /\ calls = [s \in Slots |-> IdleCall]
  /\ services = FreshServices

ServiceNext == AutoNext

ServiceSpec == ServiceInit /\ [][ServiceNext]_vars


(* MaxRegistered callbacks were registered, of every kind and in every     *)
(* order, switches the role on request.                                    *)
(***************************************************************************)
MaxRegistered == 2

\* this.listeners: a Set iterates in insertion order and holds a callback once
ListenerSets ==
  {ls \in UNION {[1 .. n -> AsyncListenerKinds] : n \in 0 .. MaxRegistered} :
     \A i, j \in 1 .. Len(ls) : i # j => ls[i] # ls[j]}

NotifyInit ==
  /\ currentMode = "active_master"
  /\ lockState = "unlocked"
  /\ lockedMode = NoMode
  /\ lockTime = NoTime
  /\ config \in [requireConfirmation : BOOLEAN, maxLockDuration : {0}]
  /\ pendingConfirmation = NoPending
  /\ listeners \in ListenerSets
  /\ processing = FALSE
  /\ now = 1
  /\ calls = [s \in Slots |-> IdleCall]
  /\ services = Unobserved
  /\ last = Ev("new", "ok")
  /\ enabled = FALSE
  /\ monitoringTimer = NoTime
  /\ sinceInput = 0
  /\ sinceStart = NoTime
  /\ switches = << >>

NotifyNext ==
  \/ \E t \in NodeMode, id \in RequestIds : RequestModeSwitch(t, id)
  \/ \E id \in RequestIds : ConfirmModeSwitch(id)
  \/ \E l \in AsyncListenerKinds : OnModeChange(l)
  \/ \E l \in AsyncListenerKinds : OffModeChange(l)
  \/ \E s \in Slots : Resume(s)
  \/ \E s \in Slots : Commit(s)
  \/ \E s \in Slots : Settle(s)

NotifySpec == NotifyInit /\ [][NotifyNext]_vars

(***************************************************************************)
(* Overlapping manual switches: a Manual Controller with a listener, on    *)
(* which a second requestModeSwitch or confirmModeSwitch may be issued     *)
(* while the first still awaits its side effects.                          *)
(***************************************************************************)
\* the switches that may await their side effects at the same time
MaxOverlap == 2

OverlapInit ==
  /\ currentMode = "active_master"
  /\ lockState = "unlocked"
  /\ lockedMode = NoMode
  /\ lockTime = NoTime
  /\ config \in [requireConfirmation : BOOLEAN, maxLockDuration : {0}]
  /\ pendingConfirmation = NoPending
  /\ listeners \in {<<"returns">>, <<"resolves">>}
  /\ processing = FALSE
  /\ now = 1
  /\ calls = [s \in 1 .. MaxOverlap |-> IdleCall]
  /\ last = Ev("new", "ok")
  /\ enabled = FALSE
  /\ monitoringTimer = NoTime
  /\ sinceInput = 0
  /\ sinceStart = NoTime
  /\ switches = << >>
  /\ services = Unobserved

OverlapNext ==
  \/ \E t \in NodeMode, id \in RequestIds : RequestModeSwitch(t, id)
  \/ \E id \in RequestIds : ConfirmModeSwitch(id)
  \/ \E s \in DOMAIN calls : Resume(s)
  \/ \E s \in DOMAIN calls : Commit(s)
  \/ \E s \in DOMAIN calls : Settle(s)

OverlapSpec == OverlapInit /\ [][OverlapNext]_vars

(***************************************************************************)
(* determineMode as a function: it is called on probes and configurations  *)
(* drawn from small sets, in an engine of any role.                        *)
(***************************************************************************)
SampleTimes == {0, 50, 100, 150, 200}
SampleThresholds == {50, 100, 150}
SampleIdleThresholds == {100, 300}

DetermineInit ==
  /\ currentMode \in NodeMode
  /\ config \in [activeThreshold : SampleThresholds, standbyThreshold : SampleThresholds,
                  idleThreshold : SampleIdleThresholds, pollInterval : {1000},
                  switchTimeout : {5000}]
  /\ listeners = << >>
  /\ processing \in BOOLEAN
  /\ enabled = FALSE
  /\ monitoringTimer = NoTime
  /\ sinceInput \in SampleTimes
  /\ sinceStart = NoTime
  /\ switches = << >>
  /\ last = AutoEv("new", "ok")
  /\ lockState = "unlocked"
  /\ lockedMode = NoMode
  /\ lockTime = NoTime
  /\ pendingConfirmation = NoPending
  /\ now = 1
  /\ calls = [s \in Slots |-> IdleCall]
  /\ services = Unobserved

\* a call of determineMode(); last.result is what it returns
Determine ==
  /\ last' = AutoEv("determineMode",
                    DetermineMode(sinceInput, processing, config.activeThreshold,
                                  config.standbyThreshold))
  /\ UNCHANGED <<currentMode, config, listeners, processing, engine, manual, services>>

DetermineNext == Determine

DetermineSpec == DetermineInit /\ [][DetermineNext]_vars

(* ---------------------------------------------------------------- claims *)
\* the activations before and after a step agree: no collaborator was invoked
\* and no listener was called in it
Quiet == calls' = calls

Pending(targetMode, requestId) == [targetMode |-> targetMode, requestId |-> requestId]

\* C1: in every reachable state lockState is 'locked' if and only if lockedMode
\* is non-null, and if and only if lockTime is non-null
C1_LockFieldsAgree ==
  /\ lockState \in {"locked", "unlocked"}
  /\ (lockState = "locked") <=> (lockedMode # NoMode)
  /\ (lockState = "locked") <=> (lockTime # NoTime)

\* a lock taken for a role other than the current one, after a switch
C1_Witness ==
  /\ last.op = "lockMode"
  /\ lockState = "locked"
  /\ lockedMode = "idle_worker"
  /\ currentMode = "standby"

\* C2: while locked to M, requestModeSwitch(T) with T # M fails with the
\* mode-is-locked error and changes nothing: role, lock and pending confirmation
\* are as before, no collaborator is invoked, no listener is called; with
\* requireConfirmation set or not
C2_LockedRequestChangesNothing ==
  [][\A t \in NodeMode, id \in RequestIds :
       (lockState = "locked" /\ lockedMode # t /\ RequestModeSwitch(t, id))
       => /\ last'.result = "ModeLocked"
          /\ UNCHANGED <<currentMode, lockState, lockedMode, lockTime,
                         pendingConfirmation, listeners>>
          /\ Quiet]_vars

\* a request was rejected by the lock while a confirmation was pending
C2_Witness ==
  /\ last.op = "requestModeSwitch"
  /\ last.result = "ModeLocked"
  /\ lockState = "locked"
  /\ pendingConfirmation # NoPending
  /\ pendingConfirmation.targetMode # lockedMode

\* C3 as stated: while locked to M, requestModeSwitch(M) is not rejected: it
\* starts the switch that commits M and returns null (requireConfirmation
\* false), or returns the request id with the request stored as pending
C3_LockedSameModeNeverRejected ==
  [][\A t \in NodeMode, id \in RequestIds :
       (lockState = "locked" /\ lockedMode = t /\ RequestModeSwitch(t, id))
       => IF config.requireConfirmation
          THEN /\ last'.result = "ok"
               /\ last'.ret = id
               /\ pendingConfirmation' = Pending(t, id)
          ELSE last'.result = "pending"]_vars

\* C3 amended: while locked to M, requestModeSwitch(M) is never rejected by the
\* lock. With requireConfirmation it returns the request id, with the request
\* stored as pending and the role unchanged. Without, it is rejected with the
\* processing-conflict error when M is idle_worker and isProcessing() is true,
\* and otherwise starts the switch to M; a switch that has started commits its
\* target, and the call returns null when it resolves.
C3_LockedSameModePassesLock ==
  [][/\ \A t \in NodeMode, id \in RequestIds :
          (lockState = "locked" /\ lockedMode = t /\ RequestModeSwitch(t, id))
          => IF config.requireConfirmation
             THEN /\ last'.result = "ok"
                  /\ last'.ret = id
                  /\ pendingConfirmation' = Pending(t, id)
                  /\ currentMode' = currentMode
                  /\ Quiet
             ELSE IF t = "idle_worker" /\ processing
             THEN /\ last'.result = "ProcessingConflict"
                  /\ currentMode' = currentMode
                  /\ Quiet
             ELSE /\ last'.result = "pending"
                  /\ \E s \in Slots :
                       /\ calls[s].pc = "idle"
                       /\ calls'[s].pc = "transition"
                       /\ calls'[s].newMode = t
     /\ \A s \in Slots :
          /\ Commit(s) => currentMode' = calls[s].newMode
          /\ ((Commit(s) \/ Settle(s)) /\ last'.result = "ok")
             => last'.ret = NoId]_vars

\* a switch to the locked role, requested under the lock, has resolved
C3_Witness ==
  /\ last.op = "requestModeSwitch"
  /\ last.result = "ok"
  /\ last.wrote
  /\ ~config.requireConfirmation
  /\ lockState = "locked"
  /\ lockedMode = "idle_worker"
  /\ currentMode = "idle_worker"

\* a call of the switch has started: a free activation now awaits the
\* transition to newMode
Started(newMode) ==
  \E s \in Slots :
    /\ calls[s].pc = "idle"
    /\ calls'[s].pc = "transition"
    /\ calls'[s].newMode = newMode
    /\ calls'[s].oldMode = currentMode

\* C4 as stated: with requireConfirmation false, for any current role,
\* requestModeSwitch('idle_worker') while isProcessing() is true is rejected
\* with the processing-conflict error, the role unchanged, nothing invoked; once
\* isProcessing() is false the same request is accepted
C4_WorkerRequestProcessingConflict ==
  [][\A id \in RequestIds :
       (~config.requireConfirmation /\ RequestModeSwitch("idle_worker", id))
       => IF processing
          THEN /\ last'.result = "ProcessingConflict"
               /\ currentMode' = currentMode
               /\ Quiet
          ELSE /\ last'.result = "pending"
               /\ Started("idle_worker")]_vars

\* C4 amended: with requireConfirmation false, for any current role,
\* requestModeSwitch('idle_worker') while isProcessing() is true is rejected:
\* with the mode-is-locked error when the controller is locked to another role,
\* and with the processing-conflict error otherwise; the role is unchanged, no
\* collaborator is invoked and no listener is called. Once isProcessing() is
\* false the same request, unless the lock vetoes it, starts the switch, which
\* commits idle_worker.
C4_WorkerRequestLockThenProcessing ==
  [][/\ \A id \in RequestIds :
          (~config.requireConfirmation /\ RequestModeSwitch("idle_worker", id))
          => IF lockState = "locked" /\ lockedMode # "idle_worker"
             THEN /\ last'.result = "ModeLocked"
                  /\ currentMode' = currentMode
                  /\ Quiet
             ELSE IF processing
             THEN /\ last'.result = "ProcessingConflict"
                  /\ currentMode' = currentMode
                  /\ Quiet
             ELSE /\ last'.result = "pending"
                  /\ Started("idle_worker")
     /\ \A s \in Slots : Commit(s) => currentMode' = calls[s].newMode]_vars

\* from a role other than the initial one, a request for idle_worker was
\* rejected because master jobs are processing
C4_Witness ==
  /\ last.op = "requestModeSwitch"
  /\ last.result = "ProcessingConflict"
  /\ ~config.requireConfirmation
  /\ processing
  /\ currentMode = "standby"

\* C5: whenever a requestModeSwitch or confirmModeSwitch call fails, whatever
\* the error, that call has left the current role unchanged
C5_FailedCallLeavesRole ==
  (/\ last.op \in {"requestModeSwitch", "confirmModeSwitch"}
   /\ last.result \notin {"ok", "pending"})
  => ~last.wrote

\* C6: confirmModeSwitch(id) fails with the invalid/expired-id error, changing
\* neither the role nor the pending slot, whenever id is not the id of the
\* pending confirmation; a confirmed or cancelled request leaves the slot
\* empty, so that its id is no longer the pending one
C6_ConfirmOfOtherIdFails ==
  [][\A id \in RequestIds :
       /\ ((pendingConfirmation = NoPending \/ pendingConfirmation.requestId # id)
           /\ ConfirmModeSwitch(id))
          => /\ last'.result = "InvalidId"
             /\ UNCHANGED <<currentMode, pendingConfirmation>>
             /\ Quiet
       /\ ((pendingConfirmation # NoPending /\ pendingConfirmation.requestId = id)
           /\ (ConfirmModeSwitch(id) \/ CancelModeSwitch(id)))
          => pendingConfirmation' = NoPending]_vars

\* a confirmation with another id than the pending one was refused, and the
\* pending one is still there
C6_Witness ==
  /\ last.op = "confirmModeSwitch"
  /\ last.result = "InvalidId"
  /\ pendingConfirmation # NoPending

C8_RequestThenConfirm ==
  [][/\ \A t \in NodeMode, id \in RequestIds :
          (/\ config.requireConfirmation
           /\ ~(lockState = "locked" /\ lockedMode # t)
           /\ RequestModeSwitch(t, id))
          => /\ last'.result = "ok"
             /\ last'.ret = id
             /\ pendingConfirmation' = Pending(t, id)
             /\ currentMode' = currentMode
             /\ Quiet
     /\ \A t \in NodeMode, id \in RequestIds :
          (pendingConfirmation = Pending(t, id) /\ ConfirmModeSwitch(id))
          => /\ pendingConfirmation' = NoPending
             /\ IF t = "idle_worker" /\ processing
                THEN last'.result = "ProcessingConflict" /\ Quiet
                ELSE last'.result = "pending" /\ Started(t)
     /\ \A s \in Slots : Commit(s) => currentMode' = calls[s].newMode]_vars

\* a confirmed request has switched the role and resolved
C8_Witness ==
  /\ last.op = "confirmModeSwitch"
  /\ last.result = "ok"
  /\ last.wrote
  /\ currentMode = "idle_worker"
  /\ pendingConfirmation = NoPending

\* C9: cancelModeSwitch(id) clears the pending confirmation if and only if a
\* confirmation with exactly that id is pending, and is a silent no-op
\* otherwise; it raises no error and leaves the role and the lock unchanged
C9_CancelClearsOnlyMatching ==
  [][\A id \in RequestIds :
       CancelModeSwitch(id)
       => /\ pendingConfirmation' =
               IF pendingConfirmation # NoPending
                  /\ pendingConfirmation.requestId = id
               THEN NoPending
               ELSE pendingConfirmation
          /\ last'.result = "ok"
          /\ UNCHANGED <<currentMode, lockState, lockedMode, lockTime, listeners>>
          /\ Quiet]_vars

\* a cancel has cleared the pending confirmation under a lock
C9_Witness ==
  /\ last.op = "cancelModeSwitch"
  /\ last.dropped # NoId
  /\ pendingConfirmation = NoPending
  /\ lockState = "locked"

\* the lock has been held longer than a positive maxLockDuration
HeldTooLong ==
  /\ lockState = "locked"
  /\ config.maxLockDuration > 0
  /\ now - lockTime > config.maxLockDuration

\* C10 as stated: once the lock has been held longer than maxLockDuration,
\* isLockExpired() is true and lockState and lockedMode are unchanged through
\* any operation until enforceMaxLockDuration() or unlockMode() is invoked
C10_ExpiredLockUntouched ==
  [][(HeldTooLong /\ last'.op \notin {"enforceMaxLockDuration", "unlockMode"})
     => UNCHANGED <<lockState, lockedMode>>]_vars

\* C10 amended: once the lock has been held longer than a positive
\* maxLockDuration, isLockExpired() is true but the controller stays locked
\* through any operation until enforceMaxLockDuration() or unlockMode() is
\* invoked: requests for another role are still rejected, and lockedMode and
\* lockTime change only by an explicit lockMode(), which pins the role anew.
\* enforceMaxLockDuration() then unlocks it; on a non-expired or unlocked
\* controller it changes nothing.
C10_ExpiryIsPullBased ==
  [][/\ HeldTooLong => IsLockExpired
     /\ (HeldTooLong /\ last'.op \notin {"enforceMaxLockDuration", "unlockMode"})
        => /\ lockState' = "locked"
           /\ \/ UNCHANGED <<lockedMode, lockTime>>
              \/ last'.op = "lockMode"
     /\ \A t \in NodeMode, id \in RequestIds :
          (HeldTooLong /\ lockedMode # t /\ RequestModeSwitch(t, id))
          => last'.result = "ModeLocked" /\ currentMode' = currentMode /\ Quiet
     /\ EnforceMaxLockDuration
        => IF HeldTooLong
           THEN lockState' = "unlocked" /\ lockedMode' = NoMode /\ lockTime' = NoTime
           ELSE UNCHANGED <<ctl, calls>>]_vars

\* the lock is expired and still held, and has just vetoed a request
C10_Witness ==
  /\ HeldTooLong
  /\ last.op = "requestModeSwitch"
  /\ last.result = "ModeLocked"

\* C11: isLockExpired() returns false if the controller is unlocked or
\* maxLockDuration is 0; otherwise it returns true if and only if the time
\* elapsed since lockTime is strictly greater than maxLockDuration, at every
\* lock time and every current time
C11_IsLockExpiredValue ==
  IsLockExpired =
    IF lockState = "unlocked" \/ config.maxLockDuration = 0
    THEN FALSE
    ELSE now - lockTime > config.maxLockDuration

\* a lock has been held for exactly maxLockDuration, which is positive, after
\* a query at that moment: the boundary at which the lock is not yet expired
C11_Witness ==
  /\ lockState = "locked"
  /\ config.maxLockDuration > 0
  /\ now - lockTime = config.maxLockDuration
  /\ last.op = "enforceMaxLockDuration"

\* C12: when maxLockDuration is 0, isLockExpired() is false in every reachable
\* state, however long the lock has been held, and enforceMaxLockDuration()
\* therefore never unlocks
C12_UnlimitedLockNeverExpires ==
  [][config.maxLockDuration = 0
     => /\ ~IsLockExpired
        /\ EnforceMaxLockDuration => UNCHANGED <<lockState, lockedMode, lockTime>>]_vars

\* with maxLockDuration 0, a lock taken at the first instant is still held
\* after enforceMaxLockDuration() ran at the last one
C12_Witness ==
  /\ config.maxLockDuration = 0
  /\ lockState = "locked"
  /\ lockTime = 1
  /\ now = MaxTime
  /\ last.op = "enforceMaxLockDuration"

C14_ProcessingKeepsMaster ==
  [][(/\ currentMode = "active_master"
      /\ switches = << >>
      /\ Poll => processing)
     => /\ currentMode' = "active_master"
        /\ switches' = << >>]_vars

\* a poll tick found the user away for as long as it takes and the master
\* processing, and left the role as it was
C14_Witness ==
  /\ last.op = "poll"
  /\ last.result = "same"
  /\ processing
  /\ sinceInput = MaxSinceInput
  /\ currentMode = "active_master"
  /\ switches = << >>

\* C15: if the engine is started and stays started, no user input occurs,
\* isProcessing() stays false and every collaborator completes before the
\* deadline, then the role eventually becomes idle_worker and stays idle_worker
C15_EventuallyIdleWorker ==
  [](last.op # "resetLastInput") => <>[](currentMode = "idle_worker")

\* the engine has settled as idle worker: no switch is in flight and a poll
\* tick has left the role as it was
C15_Witness ==
  /\ currentMode = "idle_worker"
  /\ switches = << >>
  /\ last.op = "poll"
  /\ last.result = "same"
  /\ sinceInput = MaxSinceInput
  /\ sinceStart = MaxSinceStart

\* C16: with activeThreshold 100, standbyThreshold 150, pollInterval 50, no
\* user input since the input probe was created (here: at the moment of
\* start(), as in the test), isProcessing() false and collaborators of 100 ms
\* each, the role is idle_worker 300 ms after start()
C16_IdleWorkerAt300 ==
  [](last.op # "resetLastInput" /\ (sinceStart = 0 => sinceInput = 0))
  => [](sinceStart = 300 => currentMode = "idle_worker")

\* C17: from role idle_worker, if the user's input keeps the time since the
\* last input below activeThreshold at every poll tick and the collaborators
\* complete in time, the role eventually becomes active_master
C17_UserPresenceWins ==
  []((/\ currentMode = "idle_worker"
      /\ [](monitoringTimer = 0 => sinceInput < config.activeThreshold))
     => <>(currentMode = "active_master"))

\* a switch idle_worker -> active_master has committed while the user is active
C17_Witness ==
  /\ last.op = "workDone"
  /\ last.result = "switched"
  /\ last.notices[1].oldMode = "idle_worker"
  /\ currentMode = "active_master"
  /\ sinceInput < config.activeThreshold

\* the text a failed notification carries for a transition that timed out or
\* whose work failed
WorkFailures ==
  {"Mode switch timeout after 2000ms", "Mode switch timeout after 5000ms",
   "StillProcessing"}

\* C18: when a transition attempt old -> new times out or its work fails, that
\* attempt does not change the role, then or later, and the listeners are
\* notified exactly once for it, with (old, old, the failure text)
C18_FailedAttemptKeepsRole ==
  [][/\ \A i \in 1 .. Len(switches) :
          /\ DeadlinePassed(i)
             => /\ currentMode' = currentMode
                /\ last'.notices =
                     <<[oldMode |-> switches[i].oldMode, newMode |-> switches[i].oldMode,
                        kind |-> "failed",
                        cause |-> IF switches[i].oldMode = "idle_worker"
                                     /\ switches[i].newMode = "active_master"
                                  THEN "Mode switch timeout after 2000ms"
                                  ELSE "Mode switch timeout after 5000ms"]>>
                /\ switches'[i].pc = "lost"
          /\ (switches[i].pc = "lost" /\ (CollaboratorDone(i) \/ WorkDone(i)))
             => /\ currentMode' = currentMode
                /\ last'.notices = << >>
     /\ (/\ last'.notices # << >>
         /\ last'.notices[1].kind = "failed"
         /\ last'.notices[1].cause \in WorkFailures)
        => /\ currentMode' = currentMode
           /\ Len(last'.notices) = 1
           /\ last'.notices[1].newMode = last'.notices[1].oldMode]_vars

\* a switch idle_worker -> active_master has timed out: the role is as before
\* and the registered listener was told so
C18_Witness ==
  /\ last.op = "timeout"
  /\ last.result = "failed"
  /\ last.notices[1].cause = "Mode switch timeout after 2000ms"
  /\ last.notices[1].oldMode = "idle_worker"
  /\ currentMode = "idle_worker"
  /\ listeners # << >>

\* C19: a failed automatic transition (here: its deadline has passed) never
\* propagates as an uncaught fault out of a poll tick
C19_TimeoutNeverUncaught ==
  last.op = "timeout" => ~last.uncaught

\* C20: at every commit of idle_worker isProcessing() is false, also when the
\* probe changes while the collaborators of the transition are running
C20_NoWorkerCommitWhileProcessing ==
  [][\A i \in 1 .. Len(switches) :
       (WorkDone(i) /\ switches[i].pc = "work" /\ switches[i].newMode = "idle_worker")
       => ~processing]_vars

\* C21: start() and stop() of the engine are idempotent: a polling timer
\* exists if and only if the engine is enabled, and start() creates one only
\* when there is none; a redundant start() or stop() (stop() before any
\* start() included) takes the early return, which changes no state and calls
\* no lifecycle hook of the input probe
C21_StartStopIdempotent ==
  [][/\ enabled <=> monitoringTimer # NoTime
     /\ Start => /\ enabled' /\ monitoringTimer' # NoTime
                 /\ IF enabled
                    THEN last'.result = "noop" /\ monitoringTimer' = monitoringTimer
                    ELSE last'.result = "ok" /\ monitoringTimer = NoTime
                 /\ UNCHANGED <<currentMode, config, listeners, processing,
                                sinceInput, switches>>
     /\ Stop => /\ ~enabled' /\ monitoringTimer' = NoTime
                /\ last'.result = IF enabled THEN "ok" ELSE "noop"
                /\ UNCHANGED <<currentMode, config, listeners, processing,
                               sinceInput, switches>>]_vars

\* start() was called on an engine that polls already: the timer kept the
\* time it had left
C21_Witness ==
  /\ last.op = "start"
  /\ last.result = "noop"
  /\ enabled
  /\ monitoringTimer # NoTime
  /\ monitoringTimer < config.pollInterval

\* C22: when a notification is dispatched and the callback of one registered
\* listener fails, every other registered listener is still invoked for that
\* notification
C22_FailureSwallowsNoListener ==
  [][\A s \in Slots :
       (Commit(s) /\ NotifyFails(listeners)) => Invoked(listeners) = listeners]_vars

\* C23: each notification invokes exactly the listeners registered at that
\* moment, once each, in registration order
C23_ExactlyTheRegistered ==
  [][\A s \in Slots :
       Commit(s)
       => /\ Len(Invoked(listeners)) = Cardinality(Members(listeners))
          /\ \A i \in 1 .. Len(listeners) : Invoked(listeners)[i] = listeners[i]]_vars

\* C24: when requestModeSwitch (immediate path) or confirmModeSwitch resolves,
\* the role has been committed and every registered listener has been invoked
\* and its result awaited: the step that commits the role is the one that
\* calls the listeners, and the call resolves in it only if no listener
\* returned a promise that is still to settle; otherwise it stays unresolved
\* until the promises have settled
C24_ResolvedAfterCommitAndNotification ==
  [][\A s \in Slots :
       /\ Commit(s)
          => /\ currentMode' = calls[s].newMode
             /\ IF NotificationPends(listeners)
                THEN /\ last'.op = "none"
                     /\ calls'[s].pc = "notifying"
                     /\ calls'[s].notified = listeners
                     /\ calls'[s].failed = NotifyFails(listeners)
                ELSE /\ last'.op = calls[s].op
                     /\ last'.result = "ok" <=> ~NotifyFails(listeners)
                     /\ last'.result = "ok" => Invoked(listeners) = listeners
       /\ Settle(s)
          => /\ last'.op = calls[s].op
             /\ last'.result = "ok" <=> ~calls[s].failed
             /\ currentMode' = currentMode]_vars

\* requestModeSwitch has resolved after the promise of a listener had been
\* awaited; the role is the target
C24_Witness ==
  /\ last.op = "requestModeSwitch"
  /\ last.result = "ok"
  /\ last.wrote
  /\ currentMode = "idle_worker"
  /\ Len(listeners) = 2
  /\ "resolves" \in Members(listeners)

\* a switch in flight or a pending confirmation aims at a role other than the
\* locked one
OtherRoleUnderWay ==
  \/ \E s \in Slots : calls[s].pc = "transition" /\ calls[s].newMode # lockedMode
  \/ pendingConfirmation # NoPending /\ pendingConfirmation.targetMode # lockedMode

\* C25 as stated: while lockState is locked the role never changes to a role
\* different from lockedMode
C25_LockedRoleNeverLeaves ==
  [][(lockState = "locked" /\ currentMode' # currentMode)
     => currentMode' = lockedMode]_vars

\* C25: while the controller is locked and neither a switch in flight nor a
\* pending confirmation aims at a role other than lockedMode, the role never
\* changes to a role different from lockedMode, and no such switch or pending
\* confirmation comes into being as long as the lock is as it is
C25_LockVetoesRequestsUnderIt ==
  [][(lockState = "locked" /\ ~OtherRoleUnderWay)
     => /\ currentMode' # currentMode => currentMode' = lockedMode
        /\ (lockState' = "locked" /\ lockedMode' = lockedMode)
           => ~OtherRoleUnderWay']_vars

\* under a lock to standby a request for standby has switched the role
C25_Witness ==
  /\ lockState = "locked"
  /\ lockedMode = "standby"
  /\ currentMode = "standby"
  /\ last.op = "requestModeSwitch"
  /\ last.result = "ok"
  /\ last.wrote
  /\ ~OtherRoleUnderWay

Remaining(sw) == sw.due + (Len(sw.plan) - sw.done - 1) * CollaboratorDelay

\* C28: poll ticks are not serialized: a tick that fires while an earlier
\* transition has not settled and that determines a role other than the
\* current one starts a further transition (or, for standby, sets the role at
\* once), and a transition whose work completes sets the role whatever was
\* started before it, so that commits land in the order of completion
C28_TicksNotSerialized ==
  [][/\ (last'.op = "poll" /\ switches # << >>)
        => LET newMode == DetermineMode(sinceInput, processing, config.activeThreshold,
                                        config.standbyThreshold)
           IN IF newMode = currentMode
              THEN switches' = switches /\ currentMode' = currentMode
              ELSE IF newMode = "standby"
                      \/ (newMode = "active_master" /\ currentMode # "idle_worker")
              THEN switches' = switches /\ currentMode' = newMode
              ELSE /\ Len(switches') = Len(switches) + 1
                   /\ switches'[Len(switches')].oldMode = currentMode
                   /\ switches'[Len(switches')].newMode = newMode
                   /\ \A i \in 1 .. Len(switches) : switches'[i] = switches[i]
     /\ \A i \in 1 .. Len(switches) :
          (WorkDone(i) /\ switches[i].pc = "work")
          => currentMode' = switches[i].newMode]_vars

\* two transitions are in flight and the one started later completes first
C28_Witness ==
  \E i, j \in 1 .. Len(switches) :
    /\ i < j
    /\ switches[i].pc = "work"
    /\ switches[j].pc = "work"
    /\ Remaining(switches[j]) < Remaining(switches[i])

\* C29: no checkAndUpdateMode evaluation begins between the start of a
\* transition and the completion of its notifications
C29_NoTickDuringTransition ==
  [][Poll => switches = << >>]_vars

\* C30: a transition of the engine to idle_worker, from any role, starts only
\* when the re-check finds isProcessing() false, and is aborted with no
\* collaborator invoked otherwise; it invokes start-worker-service, then
\* notify-coordination(worker available = true), and the role is set only
\* when the notify step has completed
C30_WorkerTransitionOrder ==
  [][/\ (Len(switches') = Len(switches) + 1
         /\ switches'[Len(switches')].newMode = "idle_worker")
        => /\ ~processing
           /\ switches'[Len(switches')].plan =
                <<"startWorkerService", "notifyCoordination:true">>
           /\ switches'[Len(switches')].done = 0
     /\ (/\ last'.op = "poll"
         /\ processing
         /\ DetermineMode(sinceInput, processing, config.activeThreshold,
                          config.standbyThreshold) = "idle_worker")
        => switches' = switches /\ currentMode' = currentMode
     /\ \A i \in 1 .. Len(switches) :
          (switches[i].newMode = "idle_worker" /\ CollaboratorDone(i))
          => /\ switches[i].done = 0
             /\ switches'[i].done = 1
             /\ currentMode' = currentMode
     /\ (currentMode' = "idle_worker" /\ currentMode # "idle_worker")
        => \E i \in 1 .. Len(switches) :
             /\ WorkDone(i)
             /\ switches[i].newMode = "idle_worker"
             /\ switches[i].plan[switches[i].done + 1] = "notifyCoordination:true"
             /\ switches[i].done = 1]_vars

\* a transition from standby to idle_worker has completed and set the role
C30_Witness ==
  /\ last.op = "workDone"
  /\ last.result = "switched"
  /\ last.notices[1].oldMode = "standby"
  /\ last.notices[1].newMode = "idle_worker"
  /\ currentMode = "idle_worker"

\* C31: a transition of the engine from idle_worker to active_master invokes
\* transfer-pending-tasks first if and only if getPendingTaskCount() > 0, then
\* stop-worker-service, then notify-coordination(worker available = false),
\* each after the one before it has completed, and the role is set only when
\* the notify step has completed
C31_MasterTransitionOrder ==
  [][/\ (Len(switches') = Len(switches) + 1
         /\ switches'[Len(switches')].newMode = "active_master")
        => LET sw == switches'[Len(switches')]
           IN /\ sw.oldMode = "idle_worker"
              /\ currentMode = "idle_worker"
              /\ sw.done = 0
              /\ sw.plan = IF sw.pendingTasks > 0
                           THEN <<"transferPendingTasks", "stopWorkerService",
                                  "notifyCoordination:false">>
                           ELSE <<"stopWorkerService", "notifyCoordination:false">>
     /\ \A i \in 1 .. Len(switches) :
          /\ (switches[i].newMode = "active_master" /\ CollaboratorDone(i))
             => /\ switches'[i].done = switches[i].done + 1
                /\ switches'[i].plan = switches[i].plan
                /\ currentMode' = currentMode
          /\ (switches[i].newMode = "active_master" /\ WorkDone(i))
             => /\ switches[i].done + 1 = Len(switches[i].plan)
                /\ switches[i].plan[switches[i].done + 1] = "notifyCoordination:false"
     /\ (currentMode = "idle_worker" /\ currentMode' = "active_master")
        => \E i \in 1 .. Len(switches) :
             /\ WorkDone(i)
             /\ switches[i].pc = "work"
             /\ switches[i].newMode = "active_master"
             /\ switches[i].oldMode = "idle_worker"]_vars

\* a worker with tasks pending is on its way to active_master: the tasks were
\* transferred, the worker service was stopped, and the coordination service
\* is being told; the role is still idle_worker
C31_Witness ==
  /\ currentMode = "idle_worker"
  /\ \E i \in 1 .. Len(switches) :
       /\ switches[i].pc = "work"
       /\ switches[i].oldMode = "idle_worker"
       /\ switches[i].newMode = "active_master"
       /\ switches[i].pendingTasks > 0
       /\ switches[i].done = 2
       /\ switches[i].plan[3] = "notifyCoordination:false"

\* what determineMode() returns in this state
Determined ==
  DetermineMode(sinceInput, processing, config.activeThreshold, config.standbyThreshold)

\* C32: a transition whose target is standby invokes no side-effect
\* collaborator, from any role (idle_worker included), in the engine (the tick
\* that determines standby sets the role and notifies, and starts nothing that
\* awaits a collaborator) and in the manual controller (its transition to
\* standby has no collaborator to invoke, whatever the probe returns); in the
\* engine a transition standby -> active_master invokes none either
C32_StandbyHasNoSideEffects ==
  [][/\ (last'.op = "poll" /\ currentMode # Determined
         /\ (Determined = "standby"
             \/ (Determined = "active_master" /\ currentMode = "standby")))
        => /\ switches' = switches
           /\ currentMode' = Determined
           /\ last'.notices[1] = [oldMode |-> currentMode, newMode |-> Determined,
                                  kind |-> "switched", cause |-> "none"]
     /\ \A i \in 1 .. Len(switches) :
          /\ switches[i].newMode # "standby"
          /\ ~(switches[i].oldMode = "standby" /\ switches[i].newMode = "active_master")
     /\ \A oldMode \in NodeMode, pendingCount \in 0 .. MaxPendingTasks :
          TransitionPlan("standby", oldMode, pendingCount) = << >>]_vars

\* a tick has taken a worker to standby at once: nothing awaits a collaborator
C32_Witness ==
  /\ last.op = "poll"
  /\ last.result = "switched"
  /\ last.notices[1].oldMode = "idle_worker"
  /\ last.notices[1].newMode = "standby"
  /\ currentMode = "standby"
  /\ switches = << >>

\* the side-effect collaborators among the steps of a manual transition
\* (startMasterServices is not one of them)
Collaborators(plan) == SelectSeq(plan, LAMBDA c : c # "startMasterServices")

\* C33: for every pair of old and target role and every state of the probe,
\* executeModeSwitch of the manual controller invokes the same sequence of
\* side-effect collaborators (start/stop worker service, transfer pending
\* tasks, notify coordination) as the transition of the engine for that pair
\* (pendingCount: what getPendingTaskCount() returned to the manual transition
\* where it read it; only the pairs of two different roles are compared, the
\* ones the engine ever switches between)
C33_SameSideEffectsAsEngine ==
  [][\A s \in Slots :
       (/\ calls[s].pc = "idle"
        /\ calls'[s].pc = "transition"
        /\ calls'[s].oldMode # calls'[s].newMode)
       => Collaborators(calls'[s].plan)
          = AutoTransitionPlan(calls'[s].oldMode, calls'[s].newMode,
                               calls'[s].pendingCount)]_vars

\* C34: a confirmModeSwitch whose id matches consumes the pending confirmation
\* before it executes the switch: when the switch then fails (target
\* idle_worker while isProcessing() is true) the pending slot is empty already
\* and the role is unchanged, and a confirmModeSwitch that follows, with the
\* same id or any other, fails with the invalid/expired-id error and changes
\* nothing; only a fresh request fills the slot again
C34_FailedConfirmConsumesPending ==
  [][/\ \A id \in RequestIds :
          (ConfirmModeSwitch(id) /\ ConfirmMatches(id))
          => /\ pendingConfirmation' = NoPending
             /\ currentMode' = currentMode
             /\ (pendingConfirmation.targetMode = "idle_worker" /\ processing)
                => /\ last'.op = "confirmModeSwitch"
                   /\ last'.result = "ProcessingConflict"
                   /\ Quiet
     /\ (last.op = "confirmModeSwitch" /\ last.result = "ProcessingConflict")
        => /\ pendingConfirmation = NoPending
           /\ \A id \in RequestIds :
                ConfirmModeSwitch(id)
                => /\ last'.result = "InvalidId"
                   /\ UNCHANGED ctl
                   /\ Quiet
     /\ (pendingConfirmation = NoPending /\ pendingConfirmation' # NoPending)
        => last'.op = "requestModeSwitch"]_vars

\* the confirmation of a request for idle_worker has failed because a master
\* job runs: the slot is empty and the role is as it was
C34_Witness ==
  /\ last.op = "confirmModeSwitch"
  /\ last.result = "ProcessingConflict"
  /\ processing
  /\ pendingConfirmation = NoPending
  /\ currentMode = "active_master"
  /\ config.requireConfirmation

\* C35: on an engine that starts from active_master with activeThreshold <
\* standbyThreshold, with no user input and no processing, the first
\* notification delivered to a registered listener is (active_master,
\* idle_worker).  On the unattended machine the role never returns to
\* active_master, so the first notification is the one dispatched while the
\* role is still active_master.
C35_FirstNoticeIsIdleWorker ==
  [][(currentMode = "active_master" /\ last'.notices # << >> /\ listeners # << >>)
     => /\ last'.notices[1].oldMode = "active_master"
        /\ last'.notices[1].newMode = "idle_worker"]_vars

\* C36: every success notification of the engine reports a real change: when
\* the engine sets newMode and notifies (oldMode, newMode), the role just
\* before was oldMode and oldMode # newMode, also when poll ticks overlap a
\* slow transition
C36_NoticeReportsRealChange ==
  [][(last'.notices # << >> /\ last'.notices[1].kind = "switched")
     => /\ last'.notices[1].oldMode = currentMode
        /\ last'.notices[1].oldMode # last'.notices[1].newMode
        /\ currentMode' = last'.notices[1].newMode]_vars

\* C37: whenever the role is active_master and no transition is in flight,
\* the worker service is stopped and the availability the coordination
\* service was told last is not 'worker available = true', after any sequence
\* of transitions
C37_MasterHasNoWorkerService ==
  (/\ services # Unobserved
   /\ currentMode = "active_master"
   /\ switches = << >>
   /\ \A s \in Slots : calls[s].pc = "idle")
  => /\ services.worker = "stopped"
     /\ services.available # "true"

\* C38: once stop() has been called on the engine and until start() is called
\* again, the role does not change, no side-effect collaborator is invoked
\* and no listener is notified, even if a transition was in flight when
\* stop() was called
C38_StoppedEngineIsInert ==
  [][(~enabled /\ ~enabled')
     => /\ currentMode' = currentMode
        /\ last'.notices = << >>
        /\ ~\E i \in 1 .. Len(switches) : CollaboratorDone(i)]_vars

\* C39: when the engine notifies the listeners of a same-role 'Mode switch
\* failed' event for an attempt, that attempt has not set the role, and an
\* attempt that has set the role is not followed by a failure notification
\* for it, also when the callback of a listener fails during the success
\* notification
C39_NoFailureNoticeAfterCommit ==
  [][\A k \in 1 .. Len(last'.notices) :
       last'.notices[k].kind = "failed"
       => /\ currentMode' = currentMode
          /\ \A j \in 1 .. Len(last'.notices) : last'.notices[j].kind # "switched"]_vars

\* C40: when two manual switches overlap on one controller, each
\* notification's old role is the role held immediately before the commit of
\* the call that notifies (and the role after both have settled is the target
\* of the call issued last); stated of the calls that await a collaborator
C40_OldRoleIsRoleBeforeCommit ==
  [][\A s \in DOMAIN calls :
       (Commit(s) /\ calls[s].plan # << >>) => calls[s].oldMode = currentMode]_vars

====
